---- MODULE Spec2Model ----
(***************************************************************************)
(* squadcast-analyze: the `fetch` command (cli.py), the settings loader    *)
(* (config.py) and the single-status export client (client.py).            *)
(*                                                                         *)
(* Text (str / bytes) is a sequence of one-character strings; JSON text is *)
(* a sequence of lexical tokens.  A parsed JSON value is a tagged tuple    *)
(*   <<"atom", tok>>   <<"list", <<v1, ...>>>>   <<"dict", <<<<k, v>>, ...>>>> *)
(***************************************************************************)
EXTENDS Integers, Sequences, FiniteSets, TLC

VARIABLES
    status,          \* --status option values (list of str)
    env_status,      \* os.getenv("STATUS", "")
    settings_status, \* Settings.status (<<>> stands for None)
    export_type,     \* --type
    status_list,     \* fetch's status_list
    pc,              \* position in fetch
    idx,             \* position in status_list of the next loop iteration
    calls,           \* every SquadcastClient.export_incidents call so far
    all_records,     \* JSON loop accumulator
    header,          \* CSV loop: <<>> is None, <<line>> otherwise
    rows,            \* CSV loop accumulator
    mismatch,        \* history: the CSV loop took the "header differs" branch
    content,         \* bytes to save
    saved,           \* save_bytes: <<>> nothing saved, <<bytes>> otherwise
    err              \* the error reported by _err

vars == <<status, env_status, settings_status, export_type, status_list, pc,
          idx, calls, all_records, header, rows, mismatch, content, saved, err>>

\* ------------------------------------------------------------------ bounds
MaxItems == 3
MaxStatuses == 3

\* -------------------------------------------------------------------- text
Whitespace == {" ", "\n", "\r"}

RECURSIVE Concat(_)
Concat(ss) == IF ss = <<>> THEN <<>> ELSE Head(ss) \o Concat(Tail(ss))

RECURSIVE Join(_, _)
Join(sep, ss) ==
    IF ss = <<>> THEN <<>>
    ELSE IF Len(ss) = 1 THEN Head(ss)
    ELSE Head(ss) \o sep \o Join(sep, Tail(ss))

RECURSIVE LStrip(_)
LStrip(s) == IF s # <<>> /\ Head(s) \in Whitespace THEN LStrip(Tail(s)) ELSE s

RECURSIVE RStrip(_)
RStrip(s) ==
    IF s # <<>> /\ s[Len(s)] \in Whitespace
    THEN RStrip(SubSeq(s, 1, Len(s) - 1)) ELSE s

\* str.strip()
Strip(s) == RStrip(LStrip(s))

\* str.split(sep): the parts between occurrences of sep, empty parts kept
RECURSIVE SplitOn(_, _, _)
SplitOn(s, sep, cur) ==
    IF s = <<>> THEN <<cur>>
    ELSE IF Head(s) = sep THEN <<cur>> \o SplitOn(Tail(s), sep, <<>>)
    ELSE SplitOn(Tail(s), sep, Append(cur, Head(s)))

Split(s, sep) == SplitOn(s, sep, <<>>)

LowerChar(c) ==
    CASE c = "A" -> "a"
      [] c = "T" -> "t"
      [] OTHER -> c

\* str.lower()
Lower(s) == [i \in 1..Len(s) |-> LowerChar(s[i])]

\* for part in item.split(","): part = part.strip(); if part: append
StripLowerParts(item) ==
    SelectSeq([i \in 1..Len(Split(item, ",")) |-> Lower(Strip(Split(item, ",")[i]))],
              LAMBDA p : p # <<>>)

StripParts(item) ==
    SelectSeq([i \in 1..Len(Split(item, ",")) |-> Strip(Split(item, ",")[i])],
              LAMBDA p : p # <<>>)

\* config.py: the STATUS parser of load_settings
ParseEnvStatus(raw) == IF raw = <<>> THEN <<>> ELSE StripLowerParts(raw)

\* cli.py 87-91: the parts of every --status item, in order
CliParts(items) == Concat([i \in 1..Len(items) |-> StripParts(items[i])])

\* cli.py 94-102
WithEnvFallback(parts, sstatus) ==
    IF parts = <<>> /\ sstatus # <<>> THEN parts \o sstatus ELSE parts

\* cli.py 105-111: remove duplicates keeping order
RECURSIVE DedupFrom(_, _)
DedupFrom(list, out) ==
    IF list = <<>> THEN out
    ELSE IF \E j \in 1..Len(out) : out[j] = Head(list)
         THEN DedupFrom(Tail(list), out)
         ELSE DedupFrom(Tail(list), Append(out, Head(list)))

\* a deduplication that keeps each entry's last occurrence
RECURSIVE DedupKeepLast(_)
DedupKeepLast(list) ==
    IF list = <<>> THEN <<>>
    ELSE IF \E j \in 2..Len(list) : list[j] = Head(list)
         THEN DedupKeepLast(Tail(list))
         ELSE <<Head(list)>> \o DedupKeepLast(Tail(list))

Dedup(list) == DedupFrom(list, <<>>)

NormalizeStatuses(items, sstatus) == Dedup(WithEnvFallback(CliParts(items), sstatus))

\* -------------------------------------------------------------------- JSON
JsonWs == {" ", "\n"}
StringToks == {"\"data\"", "\"k\"", "\"j\"", "\"id\""}
NumberToks == {"1", "2", "1e0", "1.0"}
AtomToks == StringToks \cup NumberToks \cup {"null"}

\* json.loads of a number literal followed by json.dumps: 1e0 is the float 1.0
CanonAtom(tok) == IF tok = "1e0" THEN "1.0" ELSE tok

ParseFail == [ok |-> FALSE, val |-> <<>>, next |-> 0]
ParseOk(v, n) == [ok |-> TRUE, val |-> v, next |-> n]

IsList(v) == v[1] = "list"
IsDict(v) == v[1] = "dict"
HasKey(d, k) == \E i \in 1..Len(d[2]) : d[2][i][1] = k
GetKey(d, k) == d[2][CHOOSE i \in 1..Len(d[2]) : d[2][i][1] = k][2]

\* dict[k] = v: a repeated key keeps its place and takes the last value
DictPut(pairs, k, v) ==
    IF \E i \in 1..Len(pairs) : pairs[i][1] = k
    THEN [i \in 1..Len(pairs) |-> IF pairs[i][1] = k THEN <<k, v>> ELSE pairs[i]]
    ELSE Append(pairs, <<k, v>>)

RECURSIVE ParseValue(_, _), ParseElems(_, _, _), ParseMembers(_, _, _)
ParseValue(t, i) ==
    IF i > Len(t) THEN ParseFail
    ELSE IF t[i] \in AtomToks THEN ParseOk(<<"atom", CanonAtom(t[i])>>, i + 1)
    ELSE IF t[i] = "[" THEN
        IF i + 1 <= Len(t) /\ t[i + 1] = "]" THEN ParseOk(<<"list", <<>>>>, i + 2)
        ELSE ParseElems(t, i + 1, <<>>)
    ELSE IF t[i] = "{" THEN
        IF i + 1 <= Len(t) /\ t[i + 1] = "}" THEN ParseOk(<<"dict", <<>>>>, i + 2)
        ELSE ParseMembers(t, i + 1, <<>>)
    ELSE ParseFail

ParseElems(t, i, acc) ==
    LET r == ParseValue(t, i) IN
    IF ~r.ok \/ r.next > Len(t) THEN ParseFail
    ELSE IF t[r.next] = "," THEN ParseElems(t, r.next + 1, Append(acc, r.val))
    ELSE IF t[r.next] = "]" THEN ParseOk(<<"list", Append(acc, r.val)>>, r.next + 1)
    ELSE ParseFail

ParseMembers(t, i, acc) ==
    IF i + 1 > Len(t) \/ t[i] \notin StringToks \/ t[i + 1] # ":" THEN ParseFail
    ELSE LET r == ParseValue(t, i + 2) IN
         IF ~r.ok \/ r.next > Len(t) THEN ParseFail
         ELSE IF t[r.next] = ","
              THEN ParseMembers(t, r.next + 1, DictPut(acc, t[i], r.val))
         ELSE IF t[r.next] = "}"
              THEN ParseOk(<<"dict", DictPut(acc, t[i], r.val)>>, r.next + 1)
         ELSE ParseFail

\* json.loads(bytes): ok is FALSE where it raises
Loads(b) ==
    LET t == SelectSeq(b, LAMBDA c : c \notin JsonWs)
        r == ParseValue(t, 1)
    IN IF r.ok /\ r.next = Len(t) + 1 THEN r ELSE ParseFail

\* json.dumps(value): separators ", " and ": "
RECURSIVE Dumps(_)
Dumps(v) ==
    IF v[1] = "atom" THEN <<v[2]>>
    ELSE IF v[1] = "list" THEN
        <<"[">> \o Join(<<",", " ">>, [i \in 1..Len(v[2]) |-> Dumps(v[2][i])]) \o <<"]">>
    ELSE
        <<"{">> \o Join(<<",", " ">>,
                        [i \in 1..Len(v[2]) |-> <<v[2][i][1], ":", " ">> \o Dumps(v[2][i][2])])
              \o <<"}">>

\* a record rule that unwraps the first list value of any mapping
JsonRecordsFirstList(data) ==
    IF IsList(data) THEN data[2]
    ELSE IF IsDict(data) /\ Len(data[2]) >= 1 /\ IsList(data[2][1][2])
         THEN data[2][1][2][2]
    ELSE <<data>>

\* cli.py 195-211: the records one parsed partial payload contributes
JsonRecords(data) ==
    IF IsList(data) THEN data[2]
    ELSE IF IsDict(data) THEN
        IF HasKey(data, "\"data\"") /\ IsList(GetKey(data, "\"data\""))
        THEN GetKey(data, "\"data\"")[2]
        ELSE IF Len(data[2]) = 1 /\ IsList(data[2][1][2])
        THEN data[2][1][2][2]
        ELSE <<data>>
    ELSE <<data>>

\* an accumulator that is assigned instead of extended
ExtendOverwrites(acc, records) == records

\* cli.py 196, 207, 209, 211: all_records.extend(...) / .append(...)
Extend(acc, records) == acc \o records

\* a merge that emits the bare list
JsonMergedBare(records) == Dumps(<<"list", records>>)

\* cli.py 213-214
JsonMerged(records) == Dumps(<<"dict", << <<"\"data\"", <<"list", records>>>> >>>>)

\* --------------------------------------------------------------------- CSV
Undecodable == "0xFF"

\* bytes.decode("utf-8") raises on an invalid byte
Decodes(b) == \A i \in 1..Len(b) : b[i] # Undecodable

\* str.splitlines(): "\n", "\r" and "\r\n" end a line; no empty last line
RECURSIVE SplitLinesFrom(_, _)
SplitLinesFrom(s, cur) ==
    IF s = <<>> THEN (IF cur = <<>> THEN <<>> ELSE <<cur>>)
    ELSE IF Head(s) = "\r" /\ Len(s) >= 2 /\ s[2] = "\n"
         THEN <<cur>> \o SplitLinesFrom(Tail(Tail(s)), <<>>)
    ELSE IF Head(s) \in {"\n", "\r"}
         THEN <<cur>> \o SplitLinesFrom(Tail(s), <<>>)
    ELSE SplitLinesFrom(Tail(s), Append(cur, Head(s)))

SplitLines(s) == SplitLinesFrom(s, <<>>)

\* a fold that drops the first line of every later partial, matching or not
CsvStepDropsFirstLine(st, b) ==
    LET text == Strip(b)
        lines == SplitLines(text)
    IN IF text = <<>> \/ lines = <<>> THEN st
       ELSE IF st.header = <<>>
            THEN [header |-> <<lines[1]>>, rows |-> st.rows \o Tail(lines),
                  mismatch |-> st.mismatch]
       ELSE [st EXCEPT !.rows = st.rows \o Tail(lines),
                       !.mismatch = st.mismatch \/ lines[1] # st.header[1]]

\* cli.py 236-254: one decoded partial folded into (header, rows)
CsvStep(st, b) ==
    LET text == Strip(b)
        lines == SplitLines(text)
    IN IF text = <<>> \/ lines = <<>> THEN st
       ELSE IF st.header = <<>>
            THEN [header |-> <<lines[1]>>, rows |-> st.rows \o Tail(lines),
                  mismatch |-> st.mismatch]
       ELSE IF lines[1] = st.header[1]
            THEN [st EXCEPT !.rows = st.rows \o Tail(lines)]
       ELSE [st EXCEPT !.rows = st.rows \o lines, !.mismatch = TRUE]

\* cli.py 256-261
CsvMerged(st) ==
    IF st.header = <<>> THEN <<>>
    ELSE Join(<<"\n">>, st.header \o st.rows) \o <<"\n">>

\* ----------------------------------------------------------------- inputs
\* --status items the command line may carry
StatusItems ==
    { <<"a">>, <<"A">>, <<" ", "t", " ">>, <<"a", ",", "t">>, <<>>,
      <<",", "t", ",", " ", "A">> }

\* values of the STATUS environment variable (<<>>: unset or empty)
EnvValues ==
    { <<>>, <<"a">>, <<"A", ",", "a">>, <<" ", "T", " ", ",", "a", ",">> }

\* distinct, already clean status names
StatusPool == <<"t", "a", "r", "s", "u", "v">>

RECURSIVE SeqsUpTo(_, _)
SeqsUpTo(S, n) ==
    IF n = 0 THEN {<<>>}
    ELSE SeqsUpTo(S, n - 1) \cup
         {Append(q, x) : q \in {q \in SeqsUpTo(S, n - 1) : Len(q) = n - 1}, x \in S}

ExportTypes == {"json", "csv", "xml"}

\* response bodies of the export endpoint, type=json
JsonBodies ==
    { <<"[", "]">>,
      <<"[", "1", "]">>,
      <<"[", "1", ",", " ", "2", "]">>,
      <<"[", "{", "\"id\"", ":", "2", "}", "]">>,
      <<"[", "[", "1", "]", "]">>,
      <<"{", "\"data\"", ":", "[", "{", "\"id\"", ":", "1", "}", "]", "}">>,
      <<"{", "\"data\"", ":", " ", "[", "2", ",", "1", "]", "}", "\n">>,
      <<"{", "\"data\"", ":", "1", "}">>,
      <<"{", "\"k\"", ":", "[", "1", ",", "2", "]", "}">>,
      <<"{", "\"k\"", ":", "1", "}">>,
      <<"{", "\"data\"", ":", "1", ",", "\"k\"", ":", "[", "2", "]", "}">>,
      <<"{", "\"k\"", ":", "[", "1", "]", ",", "\"data\"", ":", "[", "2", "]", "}">>,
      <<"{", "\"k\"", ":", "[", "1", "]", ",", "\"j\"", ":", "[", "2", "]", "}">>,
      <<"{", "}">>,
      <<"1e0">>,
      <<"null">>,
      <<>>,
      <<"[", "1">>,
      <<"<html>">>,
      <<"{", "\"k\"", ":", "1", ",", "}">> }

\* response bodies of the export endpoint, type=csv
CsvBodies ==
    { <<>>,
      <<" ", "\n">>,
      <<"h">>,
      <<"h", "\n">>,
      <<"h", "\n", "x">>,
      <<"h", "\n", "x", "\n", "y", "\n">>,
      <<"h", "\r", "\n", "y", "\r", "\n">>,
      <<"h", "\n", "\n", "x">>,
      <<"\n", "h", "\n", "y">>,
      <<"h", "\n", "h">>,
      <<"g", "\n", "x">>,
      <<"x">>,
      <<"h", Undecodable>> }

\* a backend that answers every status alike
PlainJsonBodies == { <<"[", "1", "]">>, <<"[", "1">> }
PlainCsvBodies == { <<"h", "\n", "x">>, <<"h", Undecodable>> }

\* ------------------------------------------------------------------ state
NoErr == [kind |-> "none", status |-> <<>>]
NoCsv == [header |-> <<>>, rows |-> <<>>, mismatch |-> FALSE]

Call(s, has, outcome, body) ==
    [status |-> s, has_status |-> has, type |-> export_type,
     outcome |-> outcome, body |-> body]

InitWith(items, envs, types) ==
    /\ status \in items
    /\ env_status \in envs
    /\ export_type \in types
    /\ settings_status = <<>>
    /\ status_list = <<>>
    /\ pc = "load_settings"
    /\ idx = 1
    /\ calls = <<>>
    /\ all_records = <<>>
    /\ header = <<>>
    /\ rows = <<>>
    /\ mismatch = FALSE
    /\ content = <<>>
    /\ saved = <<>>
    /\ err = NoErr

\* the merge under every response, for clean status lists
Init ==
    InitWith({[i \in 1..n |-> <<StatusPool[i]>>] : n \in 0..MaxStatuses},
             {<<>>}, ExportTypes)

\* status normalization under every input, for a plain backend
InitNorm == InitWith(SeqsUpTo(StatusItems, MaxItems), EnvValues, ExportTypes)

Fail(kind, s) ==
    /\ pc' = "failed"
    /\ err' = [kind |-> kind, status |-> s]

\* cli.py 71, config.py 21-53
LoadSettings ==
    /\ pc = "load_settings"
    /\ \E has_refresh_token \in BOOLEAN :
        IF has_refresh_token
        THEN /\ settings_status' = ParseEnvStatus(env_status)
             /\ pc' = "check_type"
             /\ err' = err
        ELSE /\ settings_status' = settings_status
             /\ Fail("settings", <<>>)
    /\ UNCHANGED <<status, env_status, export_type, status_list, idx, calls,
                   all_records, header, rows, mismatch, content, saved>>

\* cli.py 73-74
CheckType ==
    /\ pc = "check_type"
    /\ IF export_type \in {"json", "csv"}
       THEN pc' = "normalize" /\ err' = err
       ELSE Fail("bad_type", <<>>)
    /\ UNCHANGED <<status, env_status, settings_status, export_type, status_list,
                   idx, calls, all_records, header, rows, mismatch, content, saved>>

\* cli.py 84-111
Normalize ==
    /\ pc = "normalize"
    /\ status_list' = NormalizeStatuses(status, settings_status)
    /\ pc' = "check_window"
    /\ UNCHANGED <<status, env_status, settings_status, export_type, idx, calls,
                   all_records, header, rows, mismatch, content, saved, err>>

\* cli.py 113-117: the time window must be present, then the token is fetched
Authorize ==
    /\ pc = "check_window"
    /\ \E has_window \in BOOLEAN, token_ok \in BOOLEAN :
        IF ~has_window THEN Fail("bad_window", <<>>)
        ELSE IF ~token_ok THEN Fail("auth", <<>>)
        ELSE pc' = "export" /\ err' = err
    /\ UNCHANGED <<status, env_status, settings_status, export_type, status_list,
                   idx, calls, all_records, header, rows, mismatch, content, saved>>

Multi == Len(status_list) > 1
InLoop == pc = "export" /\ Multi /\ idx <= Len(status_list)

\* the status of the call about to be made (cli.py 139, 176, 221)
HasStatus == status_list # <<>>
CurrentStatus == IF HasStatus THEN status_list[idx] ELSE <<>>

\* a single call whose JSON answer is parsed and serialized again
SingleContentReserialized(b) ==
    IF export_type = "json" /\ Loads(b).ok THEN Dumps(Loads(b).val) ELSE b

\* cli.py 147-155: the single call's bytes are the content
SingleContent(b) == b

\* a failed call that is skipped and the loop goes on
CallFailedSwallowed(kind, s) ==
    /\ pc' = pc
    /\ err' = err
    /\ idx' = idx + 1

\* client.py 86-95 raising through cli.py 292-293
CallFailed(kind, s) ==
    /\ Fail(kind, s)
    /\ idx' = idx

\* a parse error that does not name the status
ParseFailedNoStatus(s) == Fail("parse", <<>>)

\* cli.py 190-193
ParseFailed(s) == Fail("parse", s)

\* client.py 86-95: the request fails or the answer is not HTTP 200
ExportFails ==
    /\ pc = "export"
    /\ IF Multi THEN idx <= Len(status_list) ELSE idx = 1
    /\ \E kind \in {"network", "http"} :
        /\ calls' = Append(calls, Call(CurrentStatus, HasStatus, kind, <<>>))
        /\ CallFailed(kind, CurrentStatus)
    /\ UNCHANGED <<status, env_status, settings_status, export_type, status_list,
                   all_records, header, rows, mismatch, content, saved>>

\* cli.py 138-155
SingleCall(bodies) ==
    /\ pc = "export"
    /\ ~Multi
    /\ idx = 1
    /\ \E b \in bodies :
        /\ calls' = Append(calls, Call(CurrentStatus, HasStatus, "ok", b))
        /\ content' = SingleContent(b)
    /\ pc' = "save"
    /\ UNCHANGED <<status, env_status, settings_status, export_type, status_list,
                   idx, all_records, header, rows, mismatch, saved, err>>

\* cli.py 176-211: one iteration whose payload parses
JsonCall(bodies) ==
    /\ InLoop
    /\ export_type = "json"
    /\ \E b \in bodies :
        /\ Loads(b).ok
        /\ calls' = Append(calls, Call(CurrentStatus, TRUE, "ok", b))
        /\ all_records' = Extend(all_records, JsonRecords(Loads(b).val))
    /\ idx' = idx + 1
    /\ UNCHANGED <<status, env_status, settings_status, export_type, status_list,
                   pc, header, rows, mismatch, content, saved, err>>

\* cli.py 190-193: one iteration whose payload does not parse
JsonParseFails(bodies) ==
    /\ InLoop
    /\ export_type = "json"
    /\ \E b \in bodies :
        /\ ~Loads(b).ok
        /\ calls' = Append(calls, Call(CurrentStatus, TRUE, "ok", b))
    /\ ParseFailed(CurrentStatus)
    /\ UNCHANGED <<status, env_status, settings_status, export_type, status_list,
                   idx, all_records, header, rows, mismatch, content, saved>>

\* cli.py 213-214
JsonMerge ==
    /\ pc = "export" /\ Multi /\ idx > Len(status_list)
    /\ export_type = "json"
    /\ content' = JsonMerged(all_records)
    /\ pc' = "save"
    /\ UNCHANGED <<status, env_status, settings_status, export_type, status_list,
                   idx, calls, all_records, header, rows, mismatch, saved, err>>

\* cli.py 221-254: one iteration whose payload decodes
CsvCall(bodies) ==
    /\ InLoop
    /\ export_type = "csv"
    /\ \E b \in bodies :
        /\ Decodes(b)
        /\ calls' = Append(calls, Call(CurrentStatus, TRUE, "ok", b))
        /\ LET st == CsvStep([header |-> header, rows |-> rows, mismatch |-> mismatch], b)
           IN /\ header' = st.header
              /\ rows' = st.rows
              /\ mismatch' = st.mismatch
    /\ idx' = idx + 1
    /\ UNCHANGED <<status, env_status, settings_status, export_type, status_list,
                   pc, all_records, content, saved, err>>

\* cli.py 236: decode raises, caught at cli.py 292
CsvDecodeFails(bodies) ==
    /\ InLoop
    /\ export_type = "csv"
    /\ \E b \in bodies :
        /\ ~Decodes(b)
        /\ calls' = Append(calls, Call(CurrentStatus, TRUE, "ok", b))
    /\ Fail("decode", CurrentStatus)
    /\ UNCHANGED <<status, env_status, settings_status, export_type, status_list,
                   idx, all_records, header, rows, mismatch, content, saved>>

\* cli.py 256-261
CsvMerge ==
    /\ pc = "export" /\ Multi /\ idx > Len(status_list)
    /\ export_type = "csv"
    /\ content' = CsvMerged([header |-> header, rows |-> rows, mismatch |-> mismatch])
    /\ pc' = "save"
    /\ UNCHANGED <<status, env_status, settings_status, export_type, status_list,
                   idx, calls, all_records, header, rows, mismatch, saved, err>>

\* cli.py 267-271: saved is what fetch hands to save_bytes; the preview
\* that follows (cli.py 274-288) only prints
Save ==
    /\ pc = "save"
    /\ saved' = <<content>>
    /\ pc' = "done"
    /\ UNCHANGED <<status, env_status, settings_status, export_type, status_list,
                   idx, calls, all_records, header, rows, mismatch, content, err>>

NextWith(jsonBodies, csvBodies) ==
    \/ LoadSettings
    \/ CheckType
    \/ Normalize
    \/ Authorize
    \/ ExportFails
    \/ SingleCall(IF export_type = "json" THEN jsonBodies ELSE csvBodies)
    \/ JsonCall(jsonBodies)
    \/ JsonParseFails(jsonBodies)
    \/ JsonMerge
    \/ CsvCall(csvBodies)
    \/ CsvDecodeFails(csvBodies)
    \/ CsvMerge
    \/ Save

Next == NextWith(JsonBodies, CsvBodies)
NextNorm == NextWith(PlainJsonBodies, PlainCsvBodies)

Spec == Init /\ [][Next]_vars
SpecNorm == InitNorm /\ [][NextNorm]_vars

\* -------------------------------------------------------------- properties
Done == pc = "done"
Normalized ==
    \/ pc \in {"check_window", "export", "save", "done"}
    \/ pc = "failed" /\ err.kind \notin {"settings", "bad_type"}

\* The precedence of the record rule, stated rule by rule
RuleList(P) == P[1] = "list"
RuleData(P) ==
    /\ P[1] = "dict"
    /\ \E i \in 1..Len(P[2]) : P[2][i][1] = "\"data\"" /\ P[2][i][2][1] = "list"
RuleOnlyKey(P) == P[1] = "dict" /\ Len(P[2]) = 1 /\ P[2][1][2][1] = "list"
RuleRecords(P) ==
    IF RuleList(P) THEN P[2]
    ELSE IF RuleData(P)
         THEN P[2][CHOOSE i \in 1..Len(P[2]) : P[2][i][1] = "\"data\""][2][2]
    ELSE IF RuleOnlyKey(P) THEN P[2][1][2][2]
    ELSE <<P>>

\* The records of every partial payload, in call order
ExpectedRecords ==
    Concat([i \in 1..Len(calls) |->
              IF calls[i].outcome = "ok" /\ Loads(calls[i].body).ok
              THEN RuleRecords(Loads(calls[i].body).val) ELSE <<>>])

RECURSIVE SumLens(_)
SumLens(ss) == IF ss = <<>> THEN 0 ELSE Len(Head(ss)) + SumLens(Tail(ss))

\* C1: a JSON merge of two or more statuses that ran to the end saved
\* {"data": L}, L being the records of the partial payloads concatenated in
\* status order, each partial's order kept, none dropped or repeated.
C1_JsonMergeConcatenates ==
    (Done /\ Multi /\ export_type = "json") =>
        /\ Len(calls) = Len(status_list)
        /\ \A i \in 1..Len(calls) : calls[i].status = status_list[i]
        /\ Loads(saved[1]).ok
        /\ Loads(saved[1]).val =
               <<"dict", << <<"\"data\"", <<"list", ExpectedRecords>>>> >>>>
        /\ Len(GetKey(Loads(saved[1]).val, "\"data\"")[2]) =
               SumLens([i \in 1..Len(calls) |-> RuleRecords(Loads(calls[i].body).val)])

C1_Witness ==
    /\ Done /\ Multi /\ export_type = "json"
    /\ calls[1].body = <<"{", "\"data\"", ":", "[", "{", "\"id\"", ":", "1", "}", "]", "}">>
    /\ calls[2].body = <<"[", "{", "\"id\"", ":", "2", "}", "]">>
    /\ Len(calls) = 2

\* C10: in the JSON loop every parsed partial payload has contributed the
\* records of the first rule that matches it: a list its elements, a mapping
\* with a list under data that list, a one-key mapping with a list that list,
\* anything else itself as one record.
C10_RecordRulePrecedence ==
    (Normalized /\ Multi /\ export_type = "json") => all_records = ExpectedRecords

C10_Witness ==
    /\ Multi /\ export_type = "json" /\ Len(calls) = 3
    /\ calls[1].body = <<"{", "\"data\"", ":", "1", ",", "\"k\"", ":", "[", "2", "]", "}">>
    /\ calls[2].body = <<"{", "\"k\"", ":", "[", "1", "]", ",", "\"data\"", ":", "[", "2", "]", "}">>
    /\ calls[3].body = <<"{", "\"k\"", ":", "[", "1", ",", "2", "]", "}">>
    /\ Len(all_records) = 4

\* C3: with no status or one status there is one backend call, for that
\* status or none, and what is saved is the bytes it returned.
C3_SinglePassThrough ==
    (Normalized /\ ~Multi) =>
        /\ Len(calls) <= 1
        /\ pc \in {"save", "done"} => Len(calls) = 1
        /\ \A i \in 1..Len(calls) :
              /\ calls[i].has_status = (status_list # <<>>)
              /\ calls[i].has_status => calls[i].status = status_list[1]
              /\ calls[i].type = export_type
        /\ Done => saved = <<calls[1].body>>
        /\ ~Done => saved = <<>>

C3_Witness ==
    /\ Done /\ ~Multi /\ status_list # <<>> /\ export_type = "json"
    /\ Loads(saved[1]).ok
    /\ Dumps(Loads(saved[1]).val) # saved[1]

\* C4: the loop calls the backend in status order, once per status at most,
\* and a failed call is the last call: nothing is merged or saved after it.
C4_FailFast ==
    (Normalized /\ Multi) =>
        /\ Len(calls) <= Len(status_list)
        /\ \A i \in 1..Len(calls) :
              calls[i].has_status /\ calls[i].status = status_list[i]
        /\ \A i, j \in 1..Len(calls) : calls[i].status = calls[j].status => i = j
        /\ \A i \in 1..Len(calls) :
              calls[i].outcome # "ok" =>
                  /\ i = Len(calls)
                  /\ pc = "failed"
                  /\ content = <<>>
                  /\ saved = <<>>

C4_Witness ==
    /\ Multi /\ Len(status_list) = 3 /\ Len(calls) = 2
    /\ calls[2].outcome = "http"
    /\ pc = "failed"
    /\ (all_records # <<>> \/ rows # <<>>)

\* C5: a partial payload that does not parse ends the fetch with an error
\* naming its status; nothing is emitted or saved and no later call is made.
C5_ParseFailureAborts ==
    (Normalized /\ Multi /\ export_type = "json") =>
        \A i \in 1..Len(calls) :
            (calls[i].outcome = "ok" /\ ~Loads(calls[i].body).ok) =>
                /\ i = Len(calls)
                /\ pc = "failed"
                /\ err = [kind |-> "parse", status |-> status_list[i]]
                /\ content = <<>>
                /\ saved = <<>>

C5_Witness ==
    /\ Multi /\ export_type = "json" /\ Len(status_list) = 3 /\ Len(calls) = 2
    /\ ~Loads(calls[2].body).ok
    /\ all_records # <<>>
    /\ err.kind = "parse"

\* The lines of partial i as the loop sees them, and what the merge keeps
PartLines(i) == SplitLines(Strip(calls[i].body))
NonEmptyParts == {i \in 1..Len(calls) : PartLines(i) # <<>>}
FirstPart == CHOOSE i \in NonEmptyParts : \A j \in NonEmptyParts : i <= j
MergeHeader == PartLines(FirstPart)[1]
HeadersMatch == \A i \in NonEmptyParts : PartLines(i)[1] = MergeHeader
DataLines(i) == IF i \in NonEmptyParts THEN Tail(PartLines(i)) ELSE <<>>
KeptLines(i) ==
    IF i \in NonEmptyParts /\ i # FirstPart /\ PartLines(i)[1] # MergeHeader
    THEN PartLines(i) ELSE DataLines(i)
OutLines == SplitLines(saved[1])

CsvMergeShape ==
    /\ OutLines = <<MergeHeader>> \o Concat([i \in 1..Len(calls) |-> KeptLines(i)])
    /\ saved[1][Len(saved[1])] = "\n"
    /\ HeadersMatch =>
          Len(OutLines) - 1 = SumLens([i \in 1..Len(calls) |-> DataLines(i)])

\* C2 as stated: every CSV merge output has one header line, then the data
\* lines of every partial (all the lines of a partial whose header differs).
C2_AlwaysOneHeader ==
    (Done /\ Multi /\ export_type = "csv") =>
        /\ Len(OutLines) >= 1
        /\ NonEmptyParts # {} => CsvMergeShape

\* C2: a CSV merge in which some partial is not empty saved one header line,
\* the first line of the first non-empty partial, then the data lines of
\* every partial, and all the lines of a partial whose first line differs;
\* when every partial is empty the output is empty and has no header line.
C2_CsvMergeLines ==
    (Done /\ Multi /\ export_type = "csv") =>
        IF NonEmptyParts = {} THEN saved = << <<>> >> ELSE CsvMergeShape

C2_Witness ==
    /\ Done /\ Multi /\ export_type = "csv" /\ Len(calls) = 3
    /\ mismatch
    /\ PartLines(2) # <<>> /\ PartLines(2)[1] = MergeHeader /\ Len(PartLines(2)) > 1
    /\ PartLines(3) # <<>> /\ PartLines(3)[1] # MergeHeader

HasDataForm(b) ==
    /\ Loads(b).ok
    /\ Loads(b).val[1] = "dict"
    /\ Len(Loads(b).val[2]) = 1
    /\ Loads(b).val[2][1][1] = "\"data\""
    /\ Loads(b).val[2][1][2][1] = "list"

\* C8 as stated: every saved JSON artifact is {"data": [...]}, whatever the
\* number of statuses and the shape of the JSON payloads.
C8_AlwaysDataForm ==
    (Done /\ export_type = "json" /\ \A i \in 1..Len(calls) : Loads(calls[i].body).ok)
        => HasDataForm(saved[1])

\* C8: a saved JSON artifact is {"data": [...]} when it is a merge of two or
\* more statuses, whatever the payload shapes; with no status or one status it
\* has that form only if the backend's own payload has it.
C8_DataFormWhenMerged ==
    (Done /\ export_type = "json") =>
        (HasDataForm(saved[1]) <=> (Multi \/ HasDataForm(calls[1].body)))

C8_Witness ==
    /\ Done /\ export_type = "json" /\ Multi
    /\ \E i \in 1..Len(calls) : Loads(calls[i].body).val[1] = "list"
    /\ \E i \in 1..Len(calls) : Loads(calls[i].body).val[1] = "atom"

\* The loop's fold over a whole sequence of partial payloads
RECURSIVE CsvFold(_, _)
CsvFold(st, bs) == IF bs = <<>> THEN st ELSE CsvFold(CsvStep(st, Head(bs)), Tail(bs))

\* C9: no run that took the header-mismatch fallback saves the same bytes as
\* a run over the same statuses whose headers all matched (fetch reports
\* nothing else).
C9_MismatchDistinguishable ==
    (Done /\ Multi /\ export_type = "csv" /\ mismatch) =>
        ~ \E bs \in [1..Len(status_list) -> {b \in CsvBodies : Decodes(b)}] :
              /\ ~CsvFold(NoCsv, bs).mismatch
              /\ CsvMerged(CsvFold(NoCsv, bs)) = saved[1]

\* The comma-delimited segments <<item, first, last>> of the input entries
Cuts(item) == {0, Len(item) + 1} \cup {m \in 1..Len(item) : item[m] = ","}
Segments(items) ==
    UNION {{<<k, a + 1, b - 1>> : <<a, b>> \in
               {c \in Cuts(items[k]) \X Cuts(items[k]) :
                   /\ c[1] < c[2]
                   /\ \A m \in Cuts(items[k]) : ~(c[1] < m /\ m < c[2])}}
           : k \in 1..Len(items)}
Trimmed(s) ==
    LET nw == {m \in 1..Len(s) : s[m] \notin Whitespace} IN
    IF nw = {} THEN <<>>
    ELSE SubSeq(s, CHOOSE a \in nw : \A m \in nw : a <= m,
                   CHOOSE b \in nw : \A m \in nw : m <= b)
SegmentEntry(items, o) == Trimmed(SubSeq(items[o[1]], o[2], o[3]))
Before(o1, o2) == o1[1] < o2[1] \/ (o1[1] = o2[1] /\ o1[2] < o2[2])
FirstOccurrence(ent, e) ==
    CHOOSE o \in DOMAIN ent :
        /\ ent[o] = e
        /\ \A q \in DOMAIN ent : ent[q] = e => (q = o \/ Before(o, q))

\* C6: the normalized status list has no empty entry and no repeated entry,
\* holds exactly the trimmed comma-separated entries of the input (the
\* --status values, or the STATUS setting when they hold none), and lists
\* them in the order of their first occurrence.
C6_NormalizedStatuses ==
    Normalized =>
        LET cli == [o \in Segments(status) |-> SegmentEntry(status, o)]
            env == [o \in Segments(<<env_status>>) |->
                       Lower(SegmentEntry(<<env_status>>, o))]
            ent == IF \E o \in DOMAIN cli : cli[o] # <<>> THEN cli ELSE env
            n == Len(status_list)
        IN /\ \A i \in 1..n : status_list[i] # <<>>
           /\ \A i, j \in 1..n : status_list[i] = status_list[j] => i = j
           /\ {status_list[i] : i \in 1..n} = {ent[o] : o \in DOMAIN ent} \ {<<>>}
           /\ \A i, j \in 1..n :
                  i < j => Before(FirstOccurrence(ent, status_list[i]),
                                  FirstOccurrence(ent, status_list[j]))

C6_Witness ==
    /\ Normalized
    /\ status = << <<"a">>, <<" ", "t", " ">>, <<",", "t", ",", " ", "A">> >>
    /\ status_list = << <<"a">>, <<"t">>, <<"A">> >>
    /\ Len(calls) = 3

\* C7: every status passed to a backend call is lower-case, and no two
\* backend calls are for statuses that differ only in letter case.
C7_StatusesLowerCase ==
    /\ \A i \in 1..Len(calls) : calls[i].status = Lower(calls[i].status)
    /\ \A i, j \in 1..Len(calls) :
           Lower(calls[i].status) = Lower(calls[j].status) => i = j

====
